---- MODULE Spec2Model ----
(***************************************************************************)
(* A model of src/Stress.py: the StressTensor value type, its derived      *)
(* quantities (matrix view, principal stresses, Huber stress, Walker       *)
(* alternating stress), in-place scaling, addition and equality.           *)
(*                                                                         *)
(* Numbers.  The components are Python numbers.  They are modelled as      *)
(* exact rationals <<n, d>> in lowest terms (d > 0), so that "/2" and      *)
(* "0.5*" are computed, not assumed away.  A value that went through       *)
(* np.sqrt is modelled exactly as well, as a signed root                   *)
(* [sgn, sq] = sgn * sqrt(sq): products and quotients of such values stay  *)
(* of that form.  Floating-point rounding, overflow and NaN inputs are     *)
(* outside the model: every claim below is settled for exact arithmetic.   *)
(*                                                                         *)
(* Objects.  heap is the sequence of StressTensor objects alive; a         *)
(* reference is an index into it, so aliasing is visible.                  *)
(***************************************************************************)
EXTENDS Integers, Sequences, FiniteSets

VARIABLES heap, res, nops

vars == <<heap, res, nops>>

(***************************************************************************)
(* Bounds of the model.                                                    *)
(***************************************************************************)
\* Largest magnitude of a constructor argument in SpecTensor and SpecPair.
MaxVal == 1
\* Largest scale of the two tensors Spec starts from.
MaxSeed == 2
\* Most objects alive in Spec.
MaxObjs == 3
\* Most mutating operations (applyComponentKt, +) of one run of Spec.
MaxOps == 2

(***************************************************************************)
(* Python numbers: exact rationals.                                        *)
(***************************************************************************)
RECURSIVE GCD(_, _)
GCD(a, b) == IF b = 0 THEN a ELSE GCD(b, a % b)

Abs(n) == IF n < 0 THEN -n ELSE n

\* The rational n/d in lowest terms, d > 0.
Q(n, d) ==
    LET g == GCD(Abs(n), Abs(d))
        s == IF d < 0 THEN -1 ELSE 1
    IN  <<(s * n) \div g, (s * d) \div g>>

Num(n) == <<n, 1>>

RAdd(x, y) == Q(x[1] * y[2] + y[1] * x[2], x[2] * y[2])
RSub(x, y) == Q(x[1] * y[2] - y[1] * x[2], x[2] * y[2])
RMul(x, y) == Q(x[1] * y[1], x[2] * y[2])
RDiv(x, y) == Q(x[1] * y[2], x[2] * y[1])
RPow2(x) == RMul(x, x)
RLe(x, y) == x[1] * y[2] <= y[1] * x[2]

\* np.sign of one number: -1, 0 or 1.
sign(x) == IF x[1] > 0 THEN 1 ELSE IF x[1] < 0 THEN -1 ELSE 0

(***************************************************************************)
(* Values that went through np.sqrt: sgn * sqrt(sq), exactly.              *)
(* A negative sq stands for nan (the square root of a negative number).    *)
(***************************************************************************)
\* np.sqrt(x)
sqrt(x) == [sgn |-> IF sign(x) > 0 THEN 1 ELSE 0, sq |-> x]

\* A plain number as a signed root.
Scalar(x) == [sgn |-> sign(x), sq |-> RPow2(x)]

Mul(u, v) == [sgn |-> u.sgn * v.sgn, sq |-> RMul(u.sq, v.sq)]
Div(u, v) == [sgn |-> u.sgn * v.sgn, sq |-> RDiv(u.sq, v.sq)]
Neg(u) == [sgn |-> -u.sgn, sq |-> u.sq]

Zero == Scalar(Num(0))

IsNonNegative(u) == u.sgn >= 0 /\ sign(u.sq) >= 0

(***************************************************************************)
(* StressTensor: construction and views.                                   *)
(***************************************************************************)
Comps == {"sx", "sy", "sz", "sxy", "syz", "szx"}

__init__(sx, sy, sz, sxy, syz, szx) ==
    [sx |-> sx, sy |-> sy, sz |-> sz, sxy |-> sxy, syz |-> syz, szx |-> szx]

stressComponents(self) ==
    <<self.sx, self.sy, self.sz, self.sxy, self.syz, self.szx>>

stressTensorTypo(self) ==
    << <<self.sx,  self.sxy, self.szx>>,
       <<self.sxy, self.sy,  self.syz>>,
       <<self.sxy, self.syz, self.sz>> >>

stressTensor(self) ==
    << <<self.sx,  self.sxy, self.szx>>,
       <<self.sxy, self.sy,  self.syz>>,
       <<self.szx, self.syz, self.sz>> >>

(***************************************************************************)
(* Equivalent stress.                                                      *)
(***************************************************************************)
HuberStressSum(self) ==
    LET sx_diff == RPow2(RSub(self.sx, self.sy))
        sy_diff == RPow2(RSub(self.sy, self.sz))
        sz_diff == RPow2(RAdd(self.sz, self.sx))
    IN  sqrt(RAdd(RMul(Q(1, 2), RAdd(RAdd(sx_diff, sy_diff), sz_diff)),
                  RMul(Num(3), RAdd(RAdd(RPow2(self.sxy), RPow2(self.syz)),
                                    RPow2(self.szx)))))

HuberStressNoZX(self) ==
    LET sx_diff == RPow2(RSub(self.sx, self.sy))
        sy_diff == RPow2(RSub(self.sy, self.sz))
        sz_diff == RPow2(RSub(self.sz, self.sx))
    IN  sqrt(RAdd(RMul(Q(1, 2), RAdd(RAdd(sx_diff, sy_diff), sz_diff)),
                  RMul(Num(3), RAdd(RPow2(self.sxy), RPow2(self.syz)))))

HuberStress(self) ==
    LET sx_diff == RPow2(RSub(self.sx, self.sy))
        sy_diff == RPow2(RSub(self.sy, self.sz))
        sz_diff == RPow2(RSub(self.sz, self.sx))
    IN  sqrt(RAdd(RMul(Q(1, 2), RAdd(RAdd(sx_diff, sy_diff), sz_diff)),
                  RMul(Num(3), RAdd(RAdd(RPow2(self.sxy), RPow2(self.syz)),
                                    RPow2(self.szx)))))

(***************************************************************************)
(* Scaling.  KT is the sequence <<KTx, KTy, KTz, KTxy, KTyz, KTZX>>; the   *)
(* result is the receiver's six fields after the call.                     *)
(***************************************************************************)
KtDefaults == <<Num(1), Num(1), Num(1), Num(1), Num(1), Num(1)>>

applyComponentKtSlip(self, KT) ==
    [sx  |-> RMul(self.sx,  KT[1]),
     sy  |-> RMul(self.sy,  KT[2]),
     sz  |-> RMul(self.sz,  KT[3]),
     sxy |-> RMul(self.sxy, KT[4]),
     syz |-> RMul(self.syz, KT[5]),
     szx |-> RMul(self.szx, KT[3])]

applyComponentKt(self, KT) ==
    [sx  |-> RMul(self.sx,  KT[1]),
     sy  |-> RMul(self.sy,  KT[2]),
     sz  |-> RMul(self.sz,  KT[3]),
     sxy |-> RMul(self.sxy, KT[4]),
     syz |-> RMul(self.syz, KT[5]),
     szx |-> RMul(self.szx, KT[6])]

(***************************************************************************)
(* Combined-loading decomposition.                                         *)
(***************************************************************************)
_calcMisesThree(x, y, z, xy, yz, zx) ==
    sqrt(RAdd(RAdd(RAdd(RPow2(RSub(x, y)), RPow2(RSub(y, z))), RPow2(RSub(z, x))),
              RMul(Num(3), RAdd(RAdd(RPow2(xy), RPow2(yz)), RPow2(zx)))))

_calcMises(x, y, z, xy, yz, zx) ==
    sqrt(RAdd(RAdd(RAdd(RPow2(RSub(x, y)), RPow2(RSub(y, z))), RPow2(RSub(z, x))),
              RMul(Num(6), RAdd(RAdd(RPow2(xy), RPow2(yz)), RPow2(zx)))))

\* np.sign([x, y, z]) * np.sqrt(2) / 2 * _calcMises(x, y, z, xy, yz, zx),
\* evaluated left to right, the scalars broadcast over the three entries.
SignedMises(c) ==
    LET mises == _calcMises(c[1], c[2], c[3], c[4], c[5], c[6])
    IN  [j \in 1..3 |->
            Mul(Div(Mul(Scalar(Num(sign(c[j]))), sqrt(Num(2))), Scalar(Num(2))),
                mises)]

calculateWalkerMean(self, tensor) ==
    LET cmp1 == stressComponents(self)
        cmp2 == stressComponents(tensor)
        sm_comp == [k \in 1..6 |-> RDiv(RAdd(cmp1[k], cmp2[k]), Num(2))]
    IN  SignedMises(sm_comp)

calculateWalker(self, tensor) ==
    LET cmp1 == stressComponents(self)
        cmp2 == stressComponents(tensor)
        sm_comp == [k \in 1..6 |-> RDiv(RAdd(cmp1[k], cmp2[k]), Num(2))]
        sa_comp == [k \in 1..6 |-> RDiv(RSub(cmp1[k], cmp2[k]), Num(2))]
        sm == SignedMises(sm_comp)
        sa == SignedMises(sa_comp)
    IN  sa

(***************************************************************************)
(* Addition and equality.  __add__ works on the heap h: it allocates the   *)
(* object it returns; ret is the reference returned.                       *)
(***************************************************************************)
__iadd__(h, self, cls) ==
    [heap |-> [h EXCEPT ![self] =
                  __init__(RAdd(h[self].sx,  h[cls].sx),
                           RAdd(h[self].sy,  h[cls].sy),
                           RAdd(h[self].sz,  h[cls].sz),
                           RAdd(h[self].sxy, h[cls].sxy),
                           RAdd(h[self].syz, h[cls].syz),
                           RAdd(h[self].szx, h[cls].szx))],
     ret  |-> self]

__add__(h, self, cls) ==
    LET new_sx  == RAdd(h[self].sx,  h[cls].sx)
        new_sy  == RAdd(h[self].sy,  h[cls].sy)
        new_sz  == RAdd(h[self].sz,  h[cls].sz)
        new_sxy == RAdd(h[self].sxy, h[cls].sxy)
        new_syz == RAdd(h[self].syz, h[cls].syz)
        new_szx == RAdd(h[self].szx, h[cls].szx)
    IN  [heap |-> Append(h, __init__(new_sx, new_sy, new_sz,
                                     new_sxy, new_syz, new_szx)),
         ret  |-> Len(h) + 1]

__eq__NoZX(self, value) ==
    IF /\ self.sx = value.sx
       /\ self.sy = value.sy
       /\ self.sz = value.sz
       /\ self.sxy = value.sxy
       /\ self.syz = value.syz
    THEN TRUE
    ELSE FALSE

__eq__(self, value) ==
    IF /\ self.sx = value.sx
       /\ self.sy = value.sy
       /\ self.sz = value.sz
       /\ self.sxy = value.sxy
       /\ self.syz = value.syz
       /\ self.szx = value.szx
    THEN TRUE
    ELSE FALSE

(***************************************************************************)
(* Principal stresses.                                                     *)
(*                                                                         *)
(* np.linalg.eigvals returns the three roots of the characteristic         *)
(* polynomial in an order the solver chooses: eigvals(M) is the set of     *)
(* arrays it may return.  The roots are found exactly for the matrices     *)
(* whose three eigenvalues are integers (every diagonal tensor, and those  *)
(* with shear whose spectrum happens to be integral); for any other        *)
(* matrix the set is empty and the reads below are not modelled.           *)
(***************************************************************************)
IsIntegerMatrix(M) == \A i \in 1..3 : \A j \in 1..3 : M[i][j][2] = 1

Trace(M) == M[1][1][1] + M[2][2][1] + M[3][3][1]

\* Sum of the three principal 2x2 minors.
Minors(M) ==
      (M[1][1][1] * M[2][2][1] - M[1][2][1] * M[2][1][1])
    + (M[1][1][1] * M[3][3][1] - M[1][3][1] * M[3][1][1])
    + (M[2][2][1] * M[3][3][1] - M[2][3][1] * M[3][2][1])

Det(M) ==
      M[1][1][1] * (M[2][2][1] * M[3][3][1] - M[2][3][1] * M[3][2][1])
    - M[1][2][1] * (M[2][1][1] * M[3][3][1] - M[2][3][1] * M[3][1][1])
    + M[1][3][1] * (M[2][1][1] * M[3][2][1] - M[2][2][1] * M[3][1][1])

\* Every eigenvalue lies within the largest absolute row sum.
RowSum(M, i) == Abs(M[i][1][1]) + Abs(M[i][2][1]) + Abs(M[i][3][1])

Radius(M) ==
    CHOOSE r \in {RowSum(M, i) : i \in 1..3} : \A i \in 1..3 : RowSum(M, i) <= r

eigvals(M) ==
    IF ~IsIntegerMatrix(M) THEN {}
    ELSE LET R == (-Radius(M))..Radius(M)
             t == Trace(M)
             m == Minors(M)
             d == Det(M)
         IN  {<<Num(p[1]), Num(p[2]), Num(t - p[1] - p[2])>> :
                p \in {q \in R \X R :
                        LET c == t - q[1] - q[2]
                        IN  /\ q[1] * q[2] + q[1] * c + q[2] * c = m
                            /\ q[1] * q[2] * c = d}}

\* Python's max and min of a sequence of numbers.
max(s) == CHOOSE x \in {s[k] : k \in DOMAIN s} : \A k \in DOMAIN s : RLe(s[k], x)
min(s) == CHOOSE x \in {s[k] : k \in DOMAIN s} : \A k \in DOMAIN s : RLe(x, s[k])

\* The arrays self.principals may return.
principals(self) == eigvals(stressTensor(self))

\* The property definitions of the class body that share a name or sit
\* between the two that do, in source order.
ClassBody ==
    << [name |-> "firstPrincipal",  body |-> "max"],
       [name |-> "secondPrincipal", body |-> "index1"],
       [name |-> "firstPrincipal",  body |-> "min"] >>

BindingFirst(name) ==
    LET ks == {k \in DOMAIN ClassBody : ClassBody[k].name = name}
    IN  ClassBody[CHOOSE k \in ks : \A m \in ks : k <= m].body

\* A class body runs top to bottom: a later definition rebinds the name.
Binding(name) ==
    LET ks == {k \in DOMAIN ClassBody : ClassBody[k].name = name}
    IN  ClassBody[CHOOSE k \in ks : \A m \in ks : m <= k].body

\* The values self.firstPrincipal may return.
firstPrincipal(self) ==
    {IF Binding("firstPrincipal") = "max" THEN max(p) ELSE min(p) :
        p \in principals(self)}

\* The values self.secondPrincipal may return.
secondPrincipal(self) == {p[2] : p \in principals(self)}

None == "None"

\* "val, vect = <array>": the array is iterated and must hold two items.
Unpack2(p) ==
    IF Len(p) = 2
    THEN [exc |-> "", ret |-> p[2]]
    ELSE [exc |-> "ValueError", ret |-> None]

\* The outcomes of reading self.eigenVector.
eigenVector(self) == {Unpack2(p) : p \in eigvals(stressTensor(self))}

(***************************************************************************)
(* The operations as steps.  res records the last operation: its name,     *)
(* receiver, other operand, arguments, result, the exception it raised     *)
(* ("" when none) and the heap it started from.                            *)
(***************************************************************************)
Refs == 1..Len(heap)

Result(op, self, other, args, ret, exc) ==
    [op |-> op, self |-> self, other |-> other, args |-> args,
     ret |-> ret, exc |-> exc, pre |-> heap]

\* heap[i].applyComponentKt(*KT)
ApplyComponentKt(i, KT) ==
    /\ nops < MaxOps
    /\ heap' = [heap EXCEPT ![i] = applyComponentKt(heap[i], KT)]
    /\ res' = Result("applyComponentKt", i, 0, KT, None, "")
    /\ nops' = nops + 1

\* heap[i] + heap[j]
Add(i, j) ==
    /\ nops < MaxOps
    /\ Len(heap) < MaxObjs
    /\ LET r == __add__(heap, i, j)
       IN  /\ heap' = r.heap
           /\ res' = Result("__add__", i, j, <<>>, r.ret, "")
    /\ nops' = nops + 1

\* heap[i] == heap[j]
Eq(i, j) ==
    /\ res' = Result("__eq__", i, j, <<>>, __eq__(heap[i], heap[j]), "")
    /\ UNCHANGED <<heap, nops>>

\* heap[i].calculateWalker(heap[j])
CalculateWalker(i, j) ==
    /\ res' = Result("calculateWalker", i, j, <<>>,
                     calculateWalker(heap[i], heap[j]), "")
    /\ UNCHANGED <<heap, nops>>

\* heap[i].HuberStress
ReadHuberStress(i) ==
    /\ res' = Result("HuberStress", i, 0, <<>>, HuberStress(heap[i]), "")
    /\ UNCHANGED <<heap, nops>>

\* heap[i].principals
ReadPrincipals(i) ==
    /\ \E p \in principals(heap[i]) :
          res' = Result("principals", i, 0, <<>>, p, "")
    /\ UNCHANGED <<heap, nops>>

\* heap[i].firstPrincipal
ReadFirstPrincipal(i) ==
    /\ \E v \in firstPrincipal(heap[i]) :
          res' = Result("firstPrincipal", i, 0, <<>>, v, "")
    /\ UNCHANGED <<heap, nops>>

\* heap[i].secondPrincipal
ReadSecondPrincipal(i) ==
    /\ \E v \in secondPrincipal(heap[i]) :
          res' = Result("secondPrincipal", i, 0, <<>>, v, "")
    /\ UNCHANGED <<heap, nops>>

\* heap[i].eigenVector
ReadEigenVector(i) ==
    /\ \E o \in eigenVector(heap[i]) :
          res' = Result("eigenVector", i, 0, <<>>, o.ret, o.exc)
    /\ UNCHANGED <<heap, nops>>

(***************************************************************************)
(* Inputs.                                                                 *)
(***************************************************************************)
\* Every tensor with integer components in lo..hi.
Cube(lo, hi) ==
    {__init__(Num(v[1]), Num(v[2]), Num(v[3]), Num(v[4]), Num(v[5]), Num(v[6])) :
        v \in (lo..hi) \X (lo..hi) \X (lo..hi) \X (lo..hi) \X (lo..hi) \X (lo..hi)}

\* StressTensor() and StressTensor(<one keyword> = v).
Axial ==
    {[__init__(Num(0), Num(0), Num(0), Num(0), Num(0), Num(0)) EXCEPT ![c] = Num(v)] :
        c \in Comps, v \in 0..MaxVal}

\* Six pairwise different components, scaled by v.
Ramp(v) ==
    __init__(Num(v), Num(2 * v), Num(3 * v), Num(4 * v), Num(5 * v), Num(6 * v))

Seeds == {Ramp(v) : v \in 0..MaxSeed}

\* The factors a call of applyComponentKt passes explicitly.
Kts == {Num(-1), Num(0), Num(2)}

\* A call that passes all six factors, pairwise different.
KtAll == <<Num(2), Num(-1), Num(3), Q(1, 2), Num(0), Num(-2)>>

\* applyComponentKt(), applyComponentKt(<one keyword> = k) and the call above.
KtArgs ==
    {[KtDefaults EXCEPT ![c] = k] : c \in 1..6, k \in Kts \cup {Num(1)}}
        \cup {KtAll}

Start ==
    [op |-> "init", self |-> 0, other |-> 0, args |-> <<>>,
     ret |-> None, exc |-> "", pre |-> <<>>]

(***************************************************************************)
(* Spec: two tensors, scaled in place and added.                           *)
(***************************************************************************)
Init ==
    /\ heap \in {<<a, b>> : a \in Seeds, b \in Seeds}
    /\ res = Start
    /\ nops = 0

Next ==
    \/ \E i \in Refs : \E KT \in KtArgs : ApplyComponentKt(i, KT)
    \/ \E i \in Refs : \E j \in Refs : Add(i, j)

Spec == Init /\ [][Next]_vars

(***************************************************************************)
(* SpecPair: the operations on two tensors that change neither.            *)
(***************************************************************************)
InitPair ==
    /\ heap \in {<<a, b>> : a \in Cube(0, MaxVal), b \in Axial}
    /\ res = Start
    /\ nops = 0

NextPair ==
    \/ \E i \in Refs : \E j \in Refs : Eq(i, j)
    \/ \E i \in Refs : \E j \in Refs : CalculateWalker(i, j)

SpecPair == InitPair /\ [][NextPair]_vars

(***************************************************************************)
(* SpecTensor: the derived quantities of one tensor.                       *)
(***************************************************************************)
InitTensor ==
    /\ heap \in {<<t>> : t \in Cube(-MaxVal, MaxVal)}
    /\ res = Start
    /\ nops = 0

NextTensor ==
    \/ \E i \in Refs : ReadHuberStress(i)
    \/ \E i \in Refs : ReadPrincipals(i)
    \/ \E i \in Refs : ReadFirstPrincipal(i)
    \/ \E i \in Refs : ReadSecondPrincipal(i)
    \/ \E i \in Refs : ReadEigenVector(i)

SpecTensor == InitTensor /\ [][NextTensor]_vars

(***************************************************************************)
(* Properties.                                                             *)
(***************************************************************************)
Symmetric(M) == \A i \in 1..3 : \A j \in 1..3 : M[i][j] = M[j][i]

\* C1: the matrix stressTensor returns is symmetric, M[i][j] = M[j][i], for
\* every tensor reached from constructed tensors by applyComponentKt and +.
C1_StressTensorSymmetric ==
    \A r \in Refs : Symmetric(stressTensor(heap[r]))

\* A sum that was scaled, with three different non-zero shears.
C1_Witness ==
    /\ res.op = "applyComponentKt"
    /\ res.self = 3
    /\ heap[3] # res.pre[3]
    /\ sign(heap[3].sxy) # 0 /\ sign(heap[3].syz) # 0 /\ sign(heap[3].szx) # 0
    /\ heap[3].sxy # heap[3].syz
    /\ heap[3].syz # heap[3].szx
    /\ heap[3].sxy # heap[3].szx

\* The hydrostatic shifts k tried: the halves between -2*MaxVal and 2*MaxVal.
Shifts == {Q(n, 2) : n \in (-4 * MaxVal)..(4 * MaxVal)}

Shifted(t, k) ==
    __init__(RAdd(t.sx, k), RAdd(t.sy, k), RAdd(t.sz, k), t.sxy, t.syz, t.szx)

\* C2: HuberStress of (sx+k, sy+k, sz+k, sxy, syz, szx) equals HuberStress of
\* (sx, sy, sz, sxy, syz, szx), for every k.
C2_HuberHydrostaticInvariant ==
    res.op = "HuberStress" =>
        \A k \in Shifts : HuberStress(Shifted(heap[res.self], k)) = res.ret

\* HuberStress was read on a tensor with unequal normals and shear.
C2_Witness ==
    /\ res.op = "HuberStress"
    /\ heap[res.self].sx # heap[res.self].sy
    /\ heap[res.self].sy # heap[res.self].sz
    /\ sign(heap[res.self].sxy) # 0
    /\ res.ret # Zero

Isotropic(t) ==
    /\ t.sx = t.sy /\ t.sy = t.sz
    /\ t.sxy = Num(0) /\ t.syz = Num(0) /\ t.szx = Num(0)

\* C3: HuberStress is non-negative, and it is 0 if and only if sx = sy = sz
\* and sxy = syz = szx = 0.
C3_HuberZeroIffIsotropic ==
    res.op = "HuberStress" =>
        /\ IsNonNegative(res.ret)
        /\ (res.ret = Zero) <=> Isotropic(heap[res.self])

\* HuberStress was read, and was 0, on an isotropic tensor that is not zero.
C3_Witness ==
    /\ res.op = "HuberStress"
    /\ res.ret = Zero
    /\ sign(heap[res.self].sx) # 0

\* C4: applyComponentKt multiplies each component of the receiver by its own
\* factor and changes nothing else: a factor of 1 leaves its component as it
\* was (all six: the tensor is unchanged), a factor k for sx alone makes
\* sx = k * old sx.
C4_ApplyComponentKtScales ==
    res.op = "applyComponentKt" =>
        LET old == stressComponents(res.pre[res.self])
            new == stressComponents(heap[res.self])
        IN  /\ \A c \in 1..6 : new[c] = RMul(old[c], res.args[c])
            /\ \A c \in 1..6 : res.args[c] = Num(1) => new[c] = old[c]
            /\ res.args = KtDefaults => heap = res.pre
            /\ Len(heap) = Len(res.pre)
            /\ \A r \in Refs : r # res.self => heap[r] = res.pre[r]

\* A factor 2 for sx alone, on a tensor with no zero component.
C4_Witness ==
    /\ res.op = "applyComponentKt"
    /\ res.args = [KtDefaults EXCEPT ![1] = Num(2)]
    /\ \A c \in 1..6 : sign(stressComponents(res.pre[res.self])[c]) # 0
    /\ heap[res.self].sx = RMul(Num(2), res.pre[res.self].sx)

\* C5: a + b returns a new tensor whose components are the pairwise sums,
\* a and b are as before, and applyComponentKt on a tensor (the sum, later)
\* changes no other tensor.
C5_AddIsPureAndFresh ==
    /\ res.op = "__add__" =>
          /\ res.ret \notin DOMAIN res.pre
          /\ res.ret \in DOMAIN heap
          /\ \A c \in Comps :
                heap[res.ret][c] = RAdd(res.pre[res.self][c], res.pre[res.other][c])
          /\ \A r \in DOMAIN res.pre : heap[r] = res.pre[r]
    /\ res.op = "applyComponentKt" =>
          \A r \in Refs : r # res.self => heap[r] = res.pre[r]

\* The sum of two different non-zero tensors was scaled.
C5_Witness ==
    /\ res.op = "applyComponentKt"
    /\ res.self = 3
    /\ \A c \in Comps : res.pre[3][c] = RAdd(heap[1][c], heap[2][c])
    /\ heap[3] # res.pre[3]
    /\ heap[1] # heap[2]
    /\ sign(heap[1].sx) # 0 /\ sign(heap[2].sx) # 0

\* C6: a == b is True if and only if all six components are equal, False
\* otherwise, and changes neither tensor.
C6_EqIffAllComponentsEqual ==
    res.op = "__eq__" =>
        /\ res.ret \in BOOLEAN
        /\ res.ret <=> \A c \in Comps : heap[res.self][c] = heap[res.other][c]
        /\ heap = res.pre

\* Two different objects with the same non-zero components compared equal.
C6_Witness ==
    /\ res.op = "__eq__"
    /\ res.self # res.other
    /\ res.ret = TRUE
    /\ sign(heap[res.self].szx) # 0

\* C7: calculateWalker(t, t) is 0 in each entry.
C7_WalkerOfSelfIsZero ==
    (res.op = "calculateWalker" /\ heap[res.self] = heap[res.other]) =>
        \A j \in 1..3 : res.ret[j] = Zero

\* calculateWalker on two different objects with the same non-zero components.
C7_Witness ==
    /\ res.op = "calculateWalker"
    /\ res.self # res.other
    /\ heap[res.self] = heap[res.other]
    /\ sign(heap[res.self].sx) # 0
    /\ res.ret = <<Zero, Zero, Zero>>

\* The six alternating components (a_i - b_i)/2 as a tensor.
Alternating(a, b) ==
    __init__(RDiv(RSub(a.sx, b.sx), Num(2)), RDiv(RSub(a.sy, b.sy), Num(2)),
             RDiv(RSub(a.sz, b.sz), Num(2)), RDiv(RSub(a.sxy, b.sxy), Num(2)),
             RDiv(RSub(a.syz, b.syz), Num(2)), RDiv(RSub(a.szx, b.szx), Num(2)))

\* C10: a.calculateWalker(b) is the 3-vector whose entry j is sign(sa_j) times
\* the HuberStress of the tensor of alternating components; swapping a and b
\* negates every entry; neither tensor is modified.
C10_WalkerIsSignedHuberOfAlternating ==
    res.op = "calculateWalker" =>
        LET a  == heap[res.self]
            b  == heap[res.other]
            sa == Alternating(a, b)
            n  == <<sa.sx, sa.sy, sa.sz>>
        IN  /\ DOMAIN res.ret = 1..3
            /\ \A j \in 1..3 :
                  res.ret[j] = Mul(Scalar(Num(sign(n[j]))), HuberStress(sa))
            /\ \A j \in 1..3 : calculateWalker(b, a)[j] = Neg(res.ret[j])
            /\ heap = res.pre

\* A result with a positive, a negative and a zero entry, shear present.
C10_Witness ==
    /\ res.op = "calculateWalker"
    /\ res.ret[1].sgn = 1
    /\ res.ret[2].sgn = -1
    /\ res.ret[3] = Zero
    /\ heap[res.self].sxy # heap[res.other].sxy

\* v is a column of V scaled by lambda under M: M * V[.][i] = lambda * V[.][i].
IsEigenColumn(M, V, i, lambda) ==
    \A r \in 1..3 :
        RAdd(RAdd(RMul(M[r][1], V[1][i]), RMul(M[r][2], V[2][i])),
             RMul(M[r][3], V[3][i])) = RMul(lambda, V[r][i])

\* C8: reading eigenVector raises nothing and returns the 3x3 matrix whose
\* column i is an eigenvector of principals[i].
C8_EigenVectorReturns ==
    res.op = "eigenVector" =>
        /\ res.exc = ""
        /\ \E p \in principals(heap[res.self]) :
              \A i \in 1..3 : IsEigenColumn(stressTensor(heap[res.self]), res.ret, i, p[i])

\* The principal stresses of a tensor, as a set.
Spectrum(t) == {p[k] : p \in principals(t), k \in 1..3}

\* C9: firstPrincipal returns the minimum of principals (the later of the
\* two definitions is in effect), not the maximum.
C9_FirstPrincipalIsMin ==
    res.op = "firstPrincipal" =>
        LET S == Spectrum(heap[res.self])
        IN  /\ res.ret \in S
            /\ \A x \in S : RLe(res.ret, x)
            /\ Cardinality(S) > 1 => \E x \in S : ~RLe(x, res.ret)

\* firstPrincipal was read on a tensor with shear and three different
\* principal stresses, and is negative.
C9_Witness ==
    /\ res.op = "firstPrincipal"
    /\ sign(heap[res.self].sxy) # 0
    /\ Cardinality(Spectrum(heap[res.self])) = 3
    /\ sign(res.ret) < 0

====
